---- MODULE Spec2Model ----
(***************************************************************************)
(* notiontree/hierarchy.py: export of a directory tree of Markdown files   *)
(* to a hierarchy of remote pages.                                         *)
(*                                                                         *)
(* Python str values are TLA+ strings (TLC evaluates Len, SubSeq and \o on *)
(* them), so path and link manipulations are computed character by         *)
(* character as posixpath, str and re compute them.                        *)
(***************************************************************************)
EXTENDS Integers, Sequences, FiniteSets, TLC

(***************************************************************************)
(* Bounds of the model.                                                    *)
(***************************************************************************)
\* directories the walk discovers at most (the root included)
MaxDirs == 3
\* import calls that fail with an I/O error at most, per run
MaxImportFailures == 1

(***************************************************************************)
(* str helpers.                                                            *)
(***************************************************************************)
Min(S) == CHOOSE x \in S : \A y \in S : x <= y
Max(S) == CHOOSE x \in S : \A y \in S : x >= y

CharAt(s, i) == SubSeq(s, i, i)

\* s[i-1:] of Python, i a 1-based index
From(s, i) == SubSeq(s, i, Len(s))

\* s[:i] of Python
Upto(s, i) == SubSeq(s, 1, i)

StartsWith(s, p) == Len(s) >= Len(p) /\ Upto(s, Len(p)) = p

EndsWith(s, p) == Len(s) >= Len(p) /\ From(s, Len(s) - Len(p) + 1) = p

\* 1-based index of the first occurrence of sub in s at or after from; 0 if none
Find(s, sub, from) ==
    LET S == {k \in from..(Len(s) - Len(sub) + 1) : SubSeq(s, k, k + Len(sub) - 1) = sub}
    IN  IF S = {} THEN 0 ELSE Min(S)

\* 1-based index of the last occurrence of the character c in s; 0 if none
RFind(s, c) ==
    LET S == {k \in 1..Len(s) : CharAt(s, k) = c}
    IN  IF S = {} THEN 0 ELSE Max(S)

RECURSIVE RStrip(_, _)
\* s.rstrip(c)
RStrip(s, c) ==
    IF Len(s) > 0 /\ CharAt(s, Len(s)) = c THEN RStrip(Upto(s, Len(s) - 1), c) ELSE s

RECURSIVE Split(_, _)
\* s.split(c), c one character
Split(s, c) ==
    LET i == Find(s, c, 1)
    IN  IF i = 0 THEN <<s>> ELSE <<Upto(s, i - 1)>> \o Split(From(s, i + 1), c)

RECURSIVE JoinStr(_, _)
\* c.join(comps)
JoinStr(comps, c) ==
    IF Len(comps) = 0 THEN ""
    ELSE IF Len(comps) = 1 THEN comps[1]
    ELSE comps[1] \o c \o JoinStr(Tail(comps), c)

RECURSIVE Replace(_, _, _)
\* s.replace(old, new): every non-overlapping occurrence, left to right
Replace(s, old, new) ==
    LET i == IF old = "" THEN 0 ELSE Find(s, old, 1)
    IN  IF i = 0 THEN s
        ELSE Upto(s, i - 1) \o new \o Replace(From(s, i + Len(old)), old, new)

(***************************************************************************)
(* posixpath.                                                              *)
(***************************************************************************)
\* os.path.join(a, b)
PathJoin(a, b) ==
    IF StartsWith(b, "/") THEN b
    ELSE IF a = "" \/ EndsWith(a, "/") THEN a \o b
    ELSE a \o "/" \o b

\* head.rstrip("/") unless head consists of slashes only
StripHead(head, stripped) == IF head # "" /\ stripped # "" THEN stripped ELSE head

\* os.path.dirname(p), the head of os.path.split: everything up to the last slash,
\* its trailing slashes stripped
HeadOf(head) == StripHead(head, RStrip(head, "/"))

PathDirname(p) == HeadOf(Upto(p, RFind(p, "/")))

\* os.path.basename(p)
PathBasename(p) == From(p, RFind(p, "/") + 1)

RECURSIVE NormComps(_, _, _)
\* the component loop of posixpath.normpath
NormComps(comps, new_comps, initial_slashes) ==
    IF Len(comps) = 0 THEN new_comps
    ELSE LET comp == Head(comps)
             n == Len(new_comps)
         IN  IF comp = "" \/ comp = "." THEN NormComps(Tail(comps), new_comps, initial_slashes)
             ELSE IF \/ comp # ".."
                     \/ (initial_slashes = 0 /\ n = 0)
                     \/ (n > 0 /\ new_comps[n] = "..")
                  THEN NormComps(Tail(comps), Append(new_comps, comp), initial_slashes)
             ELSE IF n > 0
                  THEN NormComps(Tail(comps), SubSeq(new_comps, 1, n - 1), initial_slashes)
             ELSE NormComps(Tail(comps), new_comps, initial_slashes)

\* the count of leading slashes POSIX tells apart: 0, 1, or 2 for exactly two
InitialSlashes(path) ==
    IF ~StartsWith(path, "/") THEN 0
    ELSE IF StartsWith(path, "//") /\ ~StartsWith(path, "///") THEN 2
    ELSE 1

OrDot(p) == IF p = "" THEN "." ELSE p

NormJoin(comps, initial_slashes) ==
    OrDot(SubSeq("//", 1, initial_slashes) \o JoinStr(comps, "/"))

NormWith(path, initial_slashes) ==
    NormJoin(NormComps(Split(path, "/"), <<>>, initial_slashes), initial_slashes)

\* os.path.normpath(path)
PathNormpath(path) == IF path = "" THEN "." ELSE NormWith(path, InitialSlashes(path))

(***************************************************************************)
(* Inputs of a run: the command line (--dir, --github-wiki-root) and the   *)
(* file system the walk lists.                                             *)
(***************************************************************************)
\* values of --dir
RootPaths == {"d", "./d", "d//"}

\* values of --github-wiki-root, split at commas
WikiRootLists == {<<"w://h/w", "w://h/w/a/">>, <<"w://h/w/a", "w://h/w">>}

\* what one scandir call may list: the sub-directory names and the file names of
\* a directory, each in listing order
Listings ==
    { [dirnames |-> <<>>,            filenames |-> <<>>],
      [dirnames |-> <<>>,            filenames |-> <<"index.md", "x.md">>],
      [dirnames |-> <<"a">>,         filenames |-> <<>>],
      [dirnames |-> <<".git", "a">>, filenames |-> <<"y.md", "n.txt", "x.md">>],
      [dirnames |-> <<"b", "a">>,    filenames |-> <<"index.md", "z.md">>] }

\* the text of a file, by its base name
FileText(name) ==
    CASE name = "index.md" -> "See (./x.md)"
      [] name = "x.md"     -> "up (./index.md)\n(./y.md) or (./a/index.md)"
      [] name = "y.md"     -> "(w://h/w/a/x)\n(w://h/w//w/x)\n(w://g/x)\n(x.md) ()"
      [] name = "z.md"     -> "(./a/x.md)\n(./c.md)"
      [] OTHER             -> "text"

VARIABLES
    path,                \* root_path / dir of file_hierarchy_to_notion
    github_wiki_roots,   \* the configured wiki roots, in order
    pc,                  \* the phase the run is in
    stack,               \* os.walk: directories still to list
    walk_index,          \* directories yielded so far
    walked,              \* the (dirpath, dirnames, filenames) triples yielded
    files,               \* paths of the files the walk listed (open() succeeds)
    hierarchy,           \* List[Page]
    filename_to_notion,  \* Dict[str, PageBlock]: filename -> page id
    root_notion_page,    \* page id of the Root's page, -1 for None
    page_index,          \* position of the loop of the current phase
    notion_parent,       \* remote: page id -> parent page id
    notion_children,     \* remote: page id -> ordered child page ids
    notion_title,        \* remote: page id -> title
    notion_content,      \* remote: page id -> imported text
    calls,               \* remote calls issued, in order
    link_log,            \* the calls of _resolve_link for the last page read
    import_failures,     \* import calls that failed so far
    run,                 \* "first" or "second" invocation of file_hierarchy_to_notion
    previous             \* the remote pages as the previous invocation left them

vars == <<path, github_wiki_roots, pc, stack, walk_index, walked, files, hierarchy,
          filename_to_notion, root_notion_page, page_index, notion_parent,
          notion_children, notion_title, notion_content, calls, link_log,
          import_failures, run, previous>>

inputVars == <<path, github_wiki_roots>>
runVars == <<run, previous>>
walkVars == <<stack, walk_index, walked, files, hierarchy>>
remoteVars == <<notion_parent, notion_children, notion_title, notion_content>>

(***************************************************************************)
(* Page                                                                    *)
(***************************************************************************)
Page(type, parent_filename, filename) ==
    [type |-> type, parent_filename |-> parent_filename, filename |-> filename]

is_index(page) == page.filename = "index.md" \/ EndsWith(page.filename, "/index.md")

title(page) ==
    IF is_index(page) THEN PathBasename(PathDirname(page.filename))
    ELSE PathBasename(page.filename)

(***************************************************************************)
(* The page the root parent URL names exists before the run, with id 0.    *)
(***************************************************************************)
Init ==
    /\ path \in RootPaths
    /\ github_wiki_roots \in WikiRootLists
    /\ pc = "build"
    /\ stack = <<path>>
    /\ walk_index = 0
    /\ walked = <<>>
    /\ files = {}
    /\ hierarchy = <<>>
    /\ filename_to_notion = [f \in {} |-> 0]
    /\ root_notion_page = -1
    /\ page_index = 1
    /\ notion_parent = [p \in {} |-> 0]
    /\ notion_children = [p \in {0} |-> <<>>]
    /\ notion_title = [p \in {} |-> ""]
    /\ notion_content = [p \in {} |-> ""]
    /\ calls = <<>>
    /\ link_log = <<>>
    /\ import_failures = 0
    /\ run = "first"
    /\ previous = [notion_parent |-> notion_parent, notion_children |-> notion_children,
                   notion_title |-> notion_title, notion_content |-> notion_content]

(***************************************************************************)
(* build_local_hierarchy                                                   *)
(***************************************************************************)
\* dirnames.remove(".git")
RemoveGit(dirnames) == SelectSeq(dirnames, LAMBDA n : n # ".git")

Reverse(s) == [k \in 1..Len(s) |-> s[Len(s) - k + 1]]

\* a filter that lets every file through
Leaves_unfiltered(node, dirpath, filenames) ==
    [k \in 1..Len(filenames) |-> Page("LEAVE", node, PathJoin(dirpath, filenames[k]))]

\* the leaves of one directory: for f in filenames
Leaves(node, dirpath, filenames) ==
    LET md == SelectSeq(filenames, LAMBDA f : f # "index.md" /\ EndsWith(f, ".md"))
    IN  [k \in 1..Len(md) |-> Page("LEAVE", node, PathJoin(dirpath, md[k]))]

\* a body that takes every directory for the traversal root
WalkBody_allRoot(dirpath, filenames) ==
    hierarchy \o <<Page("ROOT", "", PathJoin(dirpath, "index.md"))>>
              \o Leaves(PathJoin(dirpath, "index.md"), dirpath, filenames)

\* the body of the loop over os.walk(path), for one yielded triple
WalkBody(dirpath, filenames) ==
    LET node == PathJoin(dirpath, "index.md")
        parent == PathJoin(PathDirname(dirpath), "index.md")
        own == IF walk_index = 0 THEN Page("ROOT", "", node)
               ELSE Page("NODE", parent, node)
    IN  hierarchy \o <<own>> \o Leaves(node, dirpath, filenames)

\* os.walk pops a directory and lists it; a directory that cannot be listed is
\* skipped silently (onerror is None); otherwise the triple is yielded, the body
\* runs, and the sub-directories left in dirnames are pushed
WalkStep ==
    /\ pc = "build"
    /\ stack # <<>>
    /\ LET top == stack[Len(stack)]
           rest == SubSeq(stack, 1, Len(stack) - 1)
       IN  \/ /\ walk_index = 0
              /\ stack' = rest
              /\ UNCHANGED <<walk_index, walked, files, hierarchy>>
           \/ \E listing \in Listings :
                LET dirnames == listing.dirnames
                    filenames == listing.filenames
                    kept == RemoveGit(dirnames)
                    pushed == [k \in 1..Len(kept) |-> PathJoin(top, kept[k])]
                IN  /\ walk_index + 1 + Len(rest) + Len(kept) <= MaxDirs
                    /\ walked' = Append(walked, [dirpath |-> top, dirnames |-> dirnames,
                                                 filenames |-> filenames])
                    /\ files' = files \cup {PathJoin(top, filenames[k]) : k \in 1..Len(filenames)}
                    /\ hierarchy' = WalkBody(top, filenames)
                    /\ walk_index' = walk_index + 1
                    /\ stack' = rest \o Reverse(pushed)
    /\ UNCHANGED <<inputVars, runVars, pc, filename_to_notion, root_notion_page, page_index,
                   remoteVars, calls, link_log, import_failures>>

\* return hierarchy
WalkReturn ==
    /\ pc = "build"
    /\ stack = <<>>
    /\ pc' = "create"
    /\ page_index' = 1
    /\ UNCHANGED <<inputVars, runVars, walkVars, filename_to_notion, root_notion_page,
                   remoteVars, calls, link_log, import_failures>>

(***************************************************************************)
(* The remote workspace (notion-py), as far as the run uses it.            *)
(***************************************************************************)
Call(op, page, target, text) == [op |-> op, page |-> page, target |-> target, text |-> text]

\* PageBlock.get_browseable_url()
get_browseable_url(page) == "n://" \o ToString(page)

Without(s, e) == SelectSeq(s, LAMBDA z : z # e)

\* parent.children.add_new(PageBlock, title=...): the new page becomes the last
\* child of parent
AddNew(children, parent, new) ==
    [p \in DOMAIN children \cup {new} |->
        IF p = new THEN <<>>
        ELSE IF p = parent THEN Append(children[p], new)
        ELSE children[p]]

\* a move to the last-child position
MoveTo_lastChild(children, page, parent) ==
    [p \in DOMAIN children |->
        IF p = parent THEN Append(Without(children[p], page), page)
        ELSE Without(children[p], page)]

\* page.move_to(parent, "first-child")
MoveTo(children, page, parent) ==
    [p \in DOMAIN children |->
        IF p = parent THEN <<page>> \o Without(children[p], page)
        ELSE Without(children[p], page)]

Put(f, k, v) == [z \in DOMAIN f \cup {k} |-> IF z = k THEN v ELSE f[z]]

(***************************************************************************)
(* create_notion_hierarchy                                                 *)
(***************************************************************************)
\* nested creation: every page is created under its true parent
flat_nested == FALSE

\* the default of the parameter flat, which file_hierarchy_to_notion never passes
flat == TRUE

\* the parent a page is created under
CreateParent(page) ==
    IF page.type = "ROOT" THEN 0
    ELSE IF flat THEN root_notion_page
    ELSE filename_to_notion[page.parent_filename]

\* filename_to_notion[page.parent_filename] raises KeyError
CreateKeyError(page) ==
    page.type # "ROOT" /\ ~flat /\ page.parent_filename \notin DOMAIN filename_to_notion

\* a creation that imports an empty document into the page as soon as it exists
CreatePage_exporting(page, parent, notion_page) ==
    /\ notion_children' = AddNew(notion_children, parent, notion_page)
    /\ notion_parent' = Put(notion_parent, notion_page, parent)
    /\ notion_title' = Put(notion_title, notion_page, title(page))
    /\ notion_content' = Put(notion_content, notion_page, "")
    /\ calls' = calls \o <<Call("create", notion_page, parent, title(page)),
                           Call("import", notion_page, 0, "")>>
    /\ filename_to_notion' = Put(filename_to_notion, page.filename, notion_page)
    /\ root_notion_page' = IF page.type = "ROOT" THEN notion_page ELSE root_notion_page
    /\ page_index' = page_index + 1
    /\ UNCHANGED pc

\* a creation that maps every filename assigned so far to the newest page
CreatePage_reassigning(page, parent, notion_page) ==
    /\ notion_children' = AddNew(notion_children, parent, notion_page)
    /\ notion_parent' = Put(notion_parent, notion_page, parent)
    /\ notion_title' = Put(notion_title, notion_page, title(page))
    /\ notion_content' = Put(notion_content, notion_page, "")
    /\ calls' = Append(calls, Call("create", notion_page, parent, title(page)))
    /\ filename_to_notion' =
          [f \in DOMAIN filename_to_notion \cup {page.filename} |-> notion_page]
    /\ root_notion_page' = IF page.type = "ROOT" THEN notion_page ELSE root_notion_page
    /\ page_index' = page_index + 1
    /\ UNCHANGED pc

\* create_notion_page(page, parent) and the two assignments after it
CreatePage(page, parent, notion_page) ==
    /\ notion_children' = AddNew(notion_children, parent, notion_page)
    /\ notion_parent' = Put(notion_parent, notion_page, parent)
    /\ notion_title' = Put(notion_title, notion_page, title(page))
    /\ notion_content' = Put(notion_content, notion_page, "")
    /\ calls' = Append(calls, Call("create", notion_page, parent, title(page)))
    /\ filename_to_notion' = Put(filename_to_notion, page.filename, notion_page)
    /\ root_notion_page' = IF page.type = "ROOT" THEN notion_page ELSE root_notion_page
    /\ page_index' = page_index + 1
    /\ UNCHANGED pc

\* a creation that takes the page the descriptor at this position got before
NewPage_reused == page_index

\* the id of the page add_new creates: the next one not in use
NewPage == Cardinality(DOMAIN notion_children)

\* one iteration of the loop over the hierarchy; the new page gets the next id
CreateStep ==
    /\ pc = "create"
    /\ page_index <= Len(hierarchy)
    /\ IF CreateKeyError(hierarchy[page_index])
       THEN /\ pc' = "error"
            /\ UNCHANGED <<filename_to_notion, root_notion_page, page_index, remoteVars, calls>>
       ELSE CreatePage(hierarchy[page_index], CreateParent(hierarchy[page_index]),
                       NewPage)
    /\ UNCHANGED <<inputVars, runVars, walkVars, link_log, import_failures>>

\* return filename_to_notion
CreateReturn ==
    /\ pc = "create"
    /\ page_index > Len(hierarchy)
    /\ pc' = "update"
    /\ page_index' = 1
    /\ UNCHANGED <<inputVars, runVars, walkVars, filename_to_notion, root_notion_page,
                   remoteVars, calls, link_log, import_failures>>

(***************************************************************************)
(* urllib.parse, for the strings the wiki links of the model are made of:  *)
(* scheme://netloc/path with an optional ;params, ?query or #fragment and  *)
(* no escape other than %20.                                               *)
(***************************************************************************)
SchemeChars ==
    {"a", "b", "c", "d", "e", "f", "g", "h", "i", "j", "k", "l", "m", "n", "o", "p",
     "q", "r", "s", "t", "u", "v", "w", "x", "y", "z", "0", "1", "2", "3", "4", "5",
     "6", "7", "8", "9", "+", "-", "."}

\* the least non-zero of a set of indices, 0 if there is none
FirstOf(S) == IF S \ {0} = {} THEN 0 ELSE Min(S \ {0})

\* s[i-1:], the empty string if i is 0
CutFrom(s, i) == IF i = 0 THEN "" ELSE From(s, i)

\* s[:i-1], s itself if i is 0
CutBefore(s, i) == IF i = 0 THEN s ELSE Upto(s, i - 1)

\* urlsplit: a scheme is a letter followed by scheme characters, up to a colon
StripSchemeAt(url, colon) ==
    IF /\ colon > 1
       /\ \A k \in 1..(colon - 1) : CharAt(url, k) \in SchemeChars
       /\ CharAt(url, 1) \notin {"0", "1", "2", "3", "4", "5", "6", "7", "8", "9", "+", "-", "."}
    THEN From(url, colon + 1)
    ELSE url

StripScheme(url) == StripSchemeAt(url, Find(url, ":", 1))

\* urlsplit: after "//" the netloc runs up to the first "/", "?" or "#"
StripNetloc(rest) ==
    IF StartsWith(rest, "//")
    THEN CutFrom(rest, FirstOf({Find(rest, "/", 3), Find(rest, "?", 3), Find(rest, "#", 3)}))
    ELSE rest

\* urlsplit: the fragment and the query are cut off
StripQuery(rest) == CutBefore(rest, FirstOf({Find(rest, "#", 1), Find(rest, "?", 1)}))

\* urlparse: the params of the last path segment are cut off
StripParams(p) == CutBefore(p, Find(p, ";", RFind(p, "/") + 1))

\* urllib.parse.urlparse(url).path
UrlPath(url) == StripParams(StripQuery(StripNetloc(StripScheme(url))))

\* urllib.parse.unquote(s)
Unquote(s) == Replace(s, "%20", " ")

(***************************************************************************)
(* _resolve_github_wiki_link: [ok |-> FALSE] stands for None               *)
(***************************************************************************)
WithSlash(github_wiki_root) ==
    IF EndsWith(github_wiki_root, "/") THEN github_wiki_root ELSE github_wiki_root \o "/"

\* the local filename guessed for a reference that starts with the wiki root
WikiRef(original_ref, github_wiki_root, dir) ==
    PathJoin(dir, Replace(Unquote(UrlPath(original_ref)),
                          Unquote(UrlPath(github_wiki_root)), "") \o ".md")

WikiMatch(original_ref, github_wiki_root, dir) ==
    IF StartsWith(original_ref, github_wiki_root)
    THEN [ok |-> TRUE, ref |-> WikiRef(original_ref, github_wiki_root, dir)]
    ELSE [ok |-> FALSE, ref |-> ""]

_resolve_github_wiki_link(original_ref, github_wiki_root, dir) ==
    WikiMatch(original_ref, WithSlash(github_wiki_root), dir)

\* if ref is not None: break
OrNext(r, next) == IF r.ok THEN r ELSE next

RECURSIVE FirstWikiMatch(_, _, _)
\* the loop over github_wiki_roots, left at the first result that is not None
FirstWikiMatch(original_ref, roots, dir) ==
    IF Len(roots) = 0 THEN [ok |-> FALSE, ref |-> ""]
    ELSE OrNext(_resolve_github_wiki_link(original_ref, Head(roots), dir),
                FirstWikiMatch(original_ref, Tail(roots), dir))

(***************************************************************************)
(* _resolve_link: out is the replacement text; logged tells whether the    *)
(* mapping was looked up and the debug record (original_ref, resolved_ref, *)
(* notion_url) was written                                                 *)
(***************************************************************************)
\* a resolver that joins the reference to the page's directory and does not
\* normalize the result
ResolvedRef_unnormalized(original_ref, page, dir, roots) ==
    IF StartsWith(original_ref, "./")
    THEN PathJoin(PathDirname(page.filename), original_ref)
    ELSE FirstWikiMatch(original_ref, roots, dir).ref

\* the key of the mapping a reference stands for: the normalized path relative
\* to the page's directory, or what the first matching wiki root gives
ResolvedRef(original_ref, page, dir, roots) ==
    IF StartsWith(original_ref, "./")
    THEN PathNormpath(PathJoin(PathDirname(page.filename), original_ref))
    ELSE FirstWikiMatch(original_ref, roots, dir).ref

\* ref is None after the loop over the wiki roots
NoWikiMatch(original_ref, dir, roots) ==
    ~StartsWith(original_ref, "./") /\ ~FirstWikiMatch(original_ref, roots, dir).ok

\* filename_to_notion[resolved_ref].get_browseable_url(), original_ref on KeyError
NotionUrl(original_ref, resolved_ref, f2n) ==
    IF resolved_ref \in DOMAIN f2n THEN get_browseable_url(f2n[resolved_ref])
    ELSE original_ref

\* what one call of _resolve_link does: out is the text returned; logged tells
\* whether the mapping was looked up and the debug line (original_ref,
\* page.filename, resolved_ref, notion_url) was written
LinkRecord(page, original_ref, resolved_ref, notion_url) ==
    [out |-> "(" \o notion_url \o ")", logged |-> TRUE, filename |-> page.filename,
     original_ref |-> original_ref, resolved_ref |-> resolved_ref,
     notion_url |-> notion_url]

\* return "({})".format(original_ref), before any lookup
Passthrough(page, original_ref) ==
    [out |-> "(" \o original_ref \o ")", logged |-> FALSE, filename |-> page.filename,
     original_ref |-> original_ref, resolved_ref |-> "", notion_url |-> ""]

ResolveRef(original_ref, page, f2n, dir, roots) ==
    IF NoWikiMatch(original_ref, dir, roots)
    THEN Passthrough(page, original_ref)
    ELSE LinkRecord(page, original_ref, ResolvedRef(original_ref, page, dir, roots),
                    NotionUrl(original_ref, ResolvedRef(original_ref, page, dir, roots), f2n))

_resolve_link(match, page, f2n, dir, roots) ==
    ResolveRef(SubSeq(match, 2, Len(match) - 1), page, f2n, dir, roots)

(***************************************************************************)
(* re.sub(r"\(.+\)", resolver, content)                                    *)
(***************************************************************************)
\* the last index in S, 0 if S is empty
LastOf(S) == IF S = {} THEN 0 ELSE Max(S)

\* the last character of the line of s that holds index i
LineEnd(s, nl) == IF nl = 0 THEN Len(s) ELSE nl - 1

\* the end of the match of \(.+\) that starts at the "(" at i, 0 if there is none:
\* .+ is greedy and matches no newline, so the match runs to the last ")" of the
\* line that leaves at least one character inside
MatchEnd(s, i) ==
    LastOf({j \in (i + 2)..LineEnd(s, Find(s, "\n", i)) : CharAt(s, j) = ")"})

\* the start of the first match at or after pos, 0 if there is none
MatchStart(s, pos) ==
    FirstOf({i \in pos..Len(s) : CharAt(s, i) = "(" /\ MatchEnd(s, i) # 0})

RECURSIVE FindAll(_, _)
\* the match <<i, j>>, and the matches after it
SpanThen(s, i, j) == <<<<i, j>>>> \o FindAll(s, j + 1)

MatchThen(s, i) == IF i = 0 THEN <<>> ELSE SpanThen(s, i, MatchEnd(s, i))

\* the spans <<start, end>> of the non-overlapping matches, scanning from pos
FindAll(s, pos) == MatchThen(s, MatchStart(s, pos))

RECURSIVE Substitute(_, _, _, _)
\* s from pos on, with the spans replaced by outs
Substitute(s, spans, outs, pos) ==
    IF Len(spans) = 0 THEN From(s, pos)
    ELSE SubSeq(s, pos, Head(spans)[1] - 1) \o Head(outs)
         \o Substitute(s, Tail(spans), Tail(outs), Head(spans)[2] + 1)

ResolveSpans(content, spans, page, f2n, dir, roots) ==
    [k \in 1..Len(spans) |->
        _resolve_link(SubSeq(content, spans[k][1], spans[k][2]), page, f2n, dir, roots)]

\* the resolver's results for the matches of content, in order
Resolutions(content, page, f2n, dir, roots) ==
    ResolveSpans(content, FindAll(content, 1), page, f2n, dir, roots)

Outs(res) == [k \in 1..Len(res) |-> res[k].out]

ReSub(content, page, f2n, dir, roots) ==
    Substitute(content, FindAll(content, 1),
               Outs(Resolutions(content, page, f2n, dir, roots)), 1)

(***************************************************************************)
(* update_link_notion_hierarchy and export_notion_page                     *)
(***************************************************************************)
\* open(page.filename).read(): IOError for a file the walk did not list
ReadOk(page) == page.filename \in files

SourceText(page) == FileText(PathBasename(page.filename))

\* an update that takes the text of a file whether or not it can be read
Rewritten_unguarded(page) ==
    ReSub(SourceText(page), page, filename_to_notion, path, github_wiki_roots)

\* the content written to the scratch file
Rewritten(page) ==
    IF ReadOk(page)
    THEN ReSub(SourceText(page), page, filename_to_notion, path, github_wiki_roots)
    ELSE ""

\* the calls of the resolver re.sub makes for the page
LinkLog(page) ==
    IF ReadOk(page)
    THEN Resolutions(SourceText(page), page, filename_to_notion, path, github_wiki_roots)
    ELSE <<>>

\* a retry that imports the scratch file again
RetryContent_same(content) == content

\* the content of the fresh NamedTemporaryFile the import is tried again with
RetryContent(content) == ""

\* export_notion_page(notion_page, page, tmp_f.name), after the write of content
\* to the scratch file. The write may raise IOError, which nothing catches; the
\* import may raise IOError, and is then tried again with an empty file, an
\* IOError of which nothing catches either. The remote import may reset the title.
WriteAndExport(page, notion_page, content) ==
    \/ \* the import succeeds
       /\ calls' = calls \o <<Call("import", notion_page, 0, content),
                              Call("title", notion_page, 0, title(page))>>
       /\ notion_content' = Put(notion_content, notion_page, content)
       /\ notion_title' = Put(notion_title, notion_page, title(page))
       /\ page_index' = page_index + 1
       /\ UNCHANGED <<pc, import_failures>>
    \/ \* the write to the scratch file raises IOError
       /\ import_failures < MaxImportFailures
       /\ import_failures' = import_failures + 1
       /\ pc' = "error"
       /\ UNCHANGED <<calls, notion_content, notion_title, page_index>>
    \/ \* the import raises IOError, the import of the empty file succeeds
       /\ import_failures < MaxImportFailures
       /\ import_failures' = import_failures + 1
       /\ calls' = calls \o <<Call("import", notion_page, 0, content),
                              Call("import", notion_page, 0, RetryContent(content)),
                              Call("title", notion_page, 0, title(page))>>
       /\ notion_content' = Put(notion_content, notion_page, RetryContent(content))
       /\ notion_title' = Put(notion_title, notion_page, title(page))
       /\ page_index' = page_index + 1
       /\ UNCHANGED pc
    \/ \* both imports raise IOError
       /\ import_failures < MaxImportFailures
       /\ import_failures' = import_failures + 1
       /\ calls' = calls \o <<Call("import", notion_page, 0, content),
                              Call("import", notion_page, 0, RetryContent(content))>>
       /\ \E reset \in BOOLEAN :
             notion_title' = IF reset THEN Put(notion_title, notion_page, "")
                             ELSE notion_title
       /\ pc' = "error"
       /\ UNCHANGED <<notion_content, page_index>>

\* a loop body that exports the Root like every other page
UpdatePage_rootToo(page) ==
    /\ link_log' = LinkLog(page)
    /\ WriteAndExport(page, filename_to_notion[page.filename], Rewritten(page))

UpdatePage(page) ==
    IF page.type = "ROOT"
    THEN /\ page_index' = page_index + 1
         /\ UNCHANGED <<pc, remoteVars, calls, link_log, import_failures>>
    ELSE /\ link_log' = LinkLog(page)
         /\ WriteAndExport(page, filename_to_notion[page.filename], Rewritten(page))

\* one iteration of the loop over the hierarchy; the Root is skipped
UpdateStep ==
    /\ pc = "update"
    /\ page_index <= Len(hierarchy)
    /\ UpdatePage(hierarchy[page_index])
    /\ UNCHANGED <<inputVars, runVars, walkVars, filename_to_notion, root_notion_page,
                   notion_parent, notion_children>>

\* the loop is over
UpdateReturn ==
    /\ pc = "update"
    /\ page_index > Len(hierarchy)
    /\ pc' = "move"
    /\ page_index' = 1
    /\ UNCHANGED <<inputVars, runVars, walkVars, filename_to_notion, root_notion_page,
                   remoteVars, calls, link_log, import_failures>>

(***************************************************************************)
(* move_pages_notion_hierarchy                                             *)
(***************************************************************************)
\* a move phase that walks the hierarchy front to back
Reversed_forward == hierarchy

\* a move phase that takes the pages of the directories first, then the Leaves
Reversed_leavesLast ==
    SelectSeq(Reverse(hierarchy), LAMBDA d : d.type # "LEAVE")
        \o SelectSeq(Reverse(hierarchy), LAMBDA d : d.type = "LEAVE")

\* reversed(hierarchy)
Reversed == Reverse(hierarchy)

\* a move phase that leaves every page under the Root's page
ParentNotionPage_root(page) == root_notion_page

\* parent_notion_page = filename_to_notion[page.parent_filename]
ParentNotionPage(page) == filename_to_notion[page.parent_filename]

\* notion_page.move_to(parent_notion_page, "first-child")
MovePage(notion_page, parent_notion_page) ==
    /\ notion_children' = MoveTo(notion_children, notion_page, parent_notion_page)
    /\ notion_parent' = Put(notion_parent, notion_page, parent_notion_page)
    /\ calls' = Append(calls, Call("move", notion_page, parent_notion_page, "first-child"))
    /\ page_index' = page_index + 1
    /\ UNCHANGED pc

\* a loop body that passes over a page whose parent_filename is no key of the mapping
MoveOne_tolerant(page) ==
    IF page.type = "ROOT" \/ page.parent_filename \notin DOMAIN filename_to_notion
    THEN /\ page_index' = page_index + 1
         /\ UNCHANGED <<pc, notion_parent, notion_children, calls>>
    ELSE MovePage(filename_to_notion[page.filename], ParentNotionPage(page))

\* the body of the loop for one page. The Root is skipped; a parent_filename that
\* is no key of the mapping raises KeyError, which nothing catches
MoveOne(page) ==
    IF page.type = "ROOT"
    THEN /\ page_index' = page_index + 1
         /\ UNCHANGED <<pc, notion_parent, notion_children, calls>>
    ELSE IF page.parent_filename \notin DOMAIN filename_to_notion
    THEN /\ pc' = "error"
         /\ UNCHANGED <<page_index, notion_parent, notion_children, calls>>
    ELSE MovePage(filename_to_notion[page.filename], ParentNotionPage(page))

\* one iteration of the loop over the reversed hierarchy
MoveStep ==
    /\ pc = "move"
    /\ page_index <= Len(hierarchy)
    /\ MoveOne(Reversed[page_index])
    /\ UNCHANGED <<inputVars, runVars, walkVars, filename_to_notion, root_notion_page,
                   notion_title, notion_content, link_log, import_failures>>

\* the loop is over: file_hierarchy_to_notion returns
MoveReturn ==
    /\ pc = "move"
    /\ page_index > Len(hierarchy)
    /\ pc' = "done"
    /\ UNCHANGED <<inputVars, runVars, walkVars, filename_to_notion, root_notion_page, page_index,
                   remoteVars, calls, link_log, import_failures>>

Next ==
    \/ WalkStep
    \/ WalkReturn
    \/ CreateStep
    \/ CreateReturn
    \/ UpdateStep
    \/ UpdateReturn
    \/ MoveStep
    \/ MoveReturn

Spec == Init /\ [][Next]_vars

(***************************************************************************)
(* Two invocations of file_hierarchy_to_notion, one after the other, with  *)
(* the same root parent and the same directory tree.                       *)
(***************************************************************************)
\* the second invocation starts when the first has returned. The remote pages
\* stay as they are; build_local_hierarchy walks the same tree and returns the
\* same hierarchy; create_notion_hierarchy starts with an empty mapping
RunAgain ==
    /\ pc = "done"
    /\ run = "first"
    /\ run' = "second"
    /\ previous' = [notion_parent |-> notion_parent, notion_children |-> notion_children,
                    notion_title |-> notion_title, notion_content |-> notion_content]
    /\ pc' = "create"
    /\ filename_to_notion' = [f \in {} |-> 0]
    /\ root_notion_page' = -1
    /\ page_index' = 1
    /\ calls' = <<>>
    /\ link_log' = <<>>
    /\ UNCHANGED <<inputVars, walkVars, remoteVars, import_failures>>

NextTwice ==
    \/ WalkStep
    \/ WalkReturn
    \/ CreateStep
    \/ CreateReturn
    \/ UpdateStep
    \/ UpdateReturn
    \/ MoveStep
    \/ MoveReturn
    \/ RunAgain

SpecTwice == Init /\ [][NextTwice]_vars

(***************************************************************************)
(* Properties.                                                             *)
(***************************************************************************)
Descriptors == 1..Len(hierarchy)

IsRoot(k) == hierarchy[k].type = "ROOT"

\* the remote page of the k-th descriptor
PageOf(k) == filename_to_notion[hierarchy[k].filename]

\* the build phase is over: build_local_hierarchy has returned
Built == pc # "build"

\* C1: when the run has completed without error, the remote parent of every
\* non-Root descriptor's page is the page the mapping holds for its
\* parent_filename, that page lists it among its children, and the Root's page is
\* a child of the root parent (page 0)
C1_RemoteParentsMirrorHierarchy ==
    pc = "done" =>
        \A k \in Descriptors :
            IF IsRoot(k)
            THEN /\ notion_parent[PageOf(k)] = 0
                 /\ \E n \in 1..Len(notion_children[0]) : notion_children[0][n] = PageOf(k)
            ELSE /\ hierarchy[k].parent_filename \in DOMAIN filename_to_notion
                 /\ notion_parent[PageOf(k)] = filename_to_notion[hierarchy[k].parent_filename]
                 /\ \E n \in 1..Len(notion_children[notion_parent[PageOf(k)]]) :
                        notion_children[notion_parent[PageOf(k)]][n] = PageOf(k)

\* a completed run whose hierarchy holds a Leaf under a Node, two levels below the Root
C1_Witness ==
    /\ pc = "done"
    /\ \E k, j \in Descriptors :
          /\ hierarchy[k].type = "LEAVE"
          /\ hierarchy[j].type = "NODE"
          /\ hierarchy[k].parent_filename = hierarchy[j].filename
          /\ notion_parent[PageOf(k)] = PageOf(j)

\* C2: in the returned hierarchy every non-empty parent_filename is the filename
\* of a descriptor at a strictly smaller index
C2_ParentsPrecede ==
    Built =>
        \A k \in Descriptors :
            hierarchy[k].parent_filename # "" =>
                \E j \in 1..(k - 1) : hierarchy[j].filename = hierarchy[k].parent_filename

\* the claim's file names: those that end in the Markdown extension, index.md apart
IsLeafName(f) == EndsWith(f, ".md") /\ f # "index.md"

\* the number of elements of a sequence that satisfy Test
Count(seq, Test(_)) == Cardinality({k \in 1..Len(seq) : Test(seq[k])})

\* the <<directory, file>> pairs the walk listed whose file is a Leaf's
ListedLeaves ==
    {<<n, m>> \in (1..Len(walked)) \X (1..3) :
        m <= Len(walked[n].filenames) /\ IsLeafName(walked[n].filenames[m])}

\* the descriptor d stands for a file of the directory the walk yielded as dirpath
InDir(d, dirpath) == PathDirname(d.filename) = RStrip(dirpath, "/")

\* C3: the hierarchy holds one Root-or-Node descriptor for each directory the walk
\* visited, a directory without Markdown files included and a .git directory
\* never; one Leaf for each listed file that ends in .md and is not index.md; and
\* nothing else
C3_OneDescriptorPerDirectoryAndLeaf ==
    /\ \A n \in 1..Len(walked) :
          /\ Count(hierarchy, LAMBDA d : /\ d.type # "LEAVE"
                                         /\ InDir(d, walked[n].dirpath)
                                         /\ PathBasename(d.filename) = "index.md") = 1
          /\ PathBasename(walked[n].dirpath) # ".git"
    /\ \A e \in ListedLeaves :
          Count(hierarchy, LAMBDA d : /\ d.type = "LEAVE"
                                      /\ InDir(d, walked[e[1]].dirpath)
                                      /\ PathBasename(d.filename) = walked[e[1]].filenames[e[2]]) = 1
    /\ Len(hierarchy) = Len(walked) + Cardinality(ListedLeaves)

\* a returned hierarchy of a tree with a .git directory, a directory without any
\* file, and a file that is not Markdown
C3_Witness ==
    /\ Built
    /\ \E n, m \in 1..Len(walked) :
          /\ walked[n].dirnames # <<>> /\ walked[n].dirnames[1] = ".git"
          /\ Len(walked[n].filenames) = 3
          /\ walked[m].filenames = <<>>

\* the number of Root descriptors
Roots == Count(hierarchy, LAMBDA d : d.type = "ROOT")

\* the Root of the claim: the only one, first, for <root_path>/index.md, no parent
RootIsFirst ==
    /\ Roots = 1
    /\ hierarchy[1].type = "ROOT"
    /\ PathNormpath(hierarchy[1].filename) = PathNormpath(path \o "/index.md")
    /\ hierarchy[1].parent_filename = ""

\* C4 as claimed: for every root_path the returned hierarchy has exactly one Root
C4_ExactlyOneRoot == Built => Len(hierarchy) > 0 /\ RootIsFirst

\* C4 as amended: exactly one Root when the walk could list root_path, whether or
\* not index.md is among its files; an empty hierarchy otherwise
C4_OneRootIfListed ==
    Built => IF walked = <<>> THEN hierarchy = <<>> ELSE RootIsFirst

\* a returned hierarchy of several directories whose root has no index.md
C4_Witness ==
    /\ Built
    /\ Len(walked) > 1
    /\ \A m \in 1..Len(walked[1].filenames) : walked[1].filenames[m] # "index.md"

(***************************************************************************)
(* Links.  A parenthesized reference, as the claims read it, is a "(" and  *)
(* the next ")" with at least one character, and neither a parenthesis nor *)
(* a newline, between them.                                                *)
(***************************************************************************)
RefEndIs(s, i, j) == IF j >= i + 2 /\ CharAt(s, j) = ")" THEN j ELSE 0

\* the end of the reference that opens at i, 0 if none does
RefEnd(s, i) ==
    RefEndIs(s, i, FirstOf({Find(s, ")", i + 1), Find(s, "(", i + 1), Find(s, "\n", i + 1)}))

RefStart(s, pos) == FirstOf({i \in pos..Len(s) : CharAt(s, i) = "(" /\ RefEnd(s, i) # 0})

RECURSIVE RefSpans(_, _)
RefSpanThen(s, i, j) == <<<<i, j>>>> \o RefSpans(s, j + 1)

RefThen(s, i) == IF i = 0 THEN <<>> ELSE RefSpanThen(s, i, RefEnd(s, i))

\* the spans of the references of s from pos on, in order
RefSpans(s, pos) == RefThen(s, RefStart(s, pos))

\* the text between the parentheses of a span
Inner(s, span) == SubSeq(s, span[1] + 1, span[2] - 1)

Contains(s, sub) == Find(s, sub, 1) # 0

\* the page read last by update_links has been imported with its rewritten content
Imported ==
    /\ pc = "update"
    /\ page_index > 1
    /\ ~IsRoot(page_index - 1)
    /\ import_failures = 0

\* the descriptor of that page, and the content the remote page got
LastPage == hierarchy[page_index - 1]

LastContent == notion_content[filename_to_notion[LastPage.filename]]

\* the file a relative reference of the page names
TargetOf(page, ref) == PathNormpath(PathJoin(PathDirname(page.filename), ref))

\* C5 as claimed: for any root_path, a relative reference of a non-Root page
\* whose target is the file of another descriptor is replaced, in the content
\* imported for the page, by the browseable URL of that descriptor's page; and the
\* mapping has one entry per descriptor
C5_RelativeLinksResolveEndToEnd ==
    /\ pc \notin {"build", "create"} => Cardinality(DOMAIN filename_to_notion) = Len(hierarchy)
    /\ Imported /\ ReadOk(LastPage) =>
          \A n \in 1..Len(RefSpans(SourceText(LastPage), 1)), k \in Descriptors :
              LET ref == Inner(SourceText(LastPage), RefSpans(SourceText(LastPage), 1)[n])
              IN  /\ StartsWith(ref, "./")
                  /\ k # page_index - 1
                  /\ TargetOf(LastPage, ref) = PathNormpath(hierarchy[k].filename)
                  => /\ Contains(LastContent, "(" \o get_browseable_url(PageOf(k)) \o ")")
                     /\ ~Contains(LastContent, "(" \o ref \o ")")

\* C6: a reference that starts with ./ is looked up under the normalized join of
\* the page's directory and the reference; on a hit the text returned is the
\* browseable URL of the mapped page in parentheses, whether that page was
\* created before or after the referring one, and on a miss the reference itself
\* in parentheses; the call is logged, never aborted
C6_RelativeReferenceLookup ==
    \A n \in 1..Len(link_log) :
        StartsWith(link_log[n].original_ref, "./") =>
            /\ link_log[n].logged
            /\ link_log[n].out =
                 IF TargetOf(link_log[n], link_log[n].original_ref) \in DOMAIN filename_to_notion
                 THEN "(" \o get_browseable_url(
                         filename_to_notion[TargetOf(link_log[n], link_log[n].original_ref)]) \o ")"
                 ELSE "(" \o link_log[n].original_ref \o ")"

\* a page whose references are one resolved to a page created after it and one
\* that is no key of the mapping and is left as it was
C6_Witness ==
    \E n, m \in 1..Len(link_log) :
        /\ StartsWith(link_log[n].original_ref, "./")
        /\ link_log[n].resolved_ref \in DOMAIN filename_to_notion
        /\ filename_to_notion[link_log[n].resolved_ref] > filename_to_notion[link_log[n].filename]
        /\ link_log[n].out = "(" \o get_browseable_url(filename_to_notion[link_log[n].resolved_ref]) \o ")"
        /\ StartsWith(link_log[m].original_ref, "./")
        /\ link_log[m].resolved_ref \notin DOMAIN filename_to_notion
        /\ link_log[m].out = "(" \o link_log[m].original_ref \o ")"

\* the text with each of its references resolved on its own
EachResolved(content, page) ==
    Substitute(content, RefSpans(content, 1),
               Outs(ResolveSpans(content, RefSpans(content, 1), page, filename_to_notion,
                                 path, github_wiki_roots)), 1)

\* C7 as claimed: the content imported for a page is its text with every
\* parenthesized reference resolved on its own, also when a line holds two of
\* them, and every character outside the references unchanged
C7_EveryReferenceRewritten ==
    Imported /\ ReadOk(LastPage) => LastContent = EachResolved(SourceText(LastPage), LastPage)

\* s without its prefix p
StripPrefix(s, p) == IF StartsWith(s, p) THEN From(s, Len(p) + 1) ELSE s

\* the configured wiki roots the reference starts with, in the configured order
MatchingRoots(ref) ==
    SelectSeq(github_wiki_roots, LAMBDA g : StartsWith(ref, WithSlash(g)))

\* the key the claim gives a reference under a wiki root: the root's path stripped
\* from the front of the reference's path, .md appended, joined to the base directory
PrefixStrippedKey(ref, root) ==
    PathJoin(path, StripPrefix(Unquote(UrlPath(ref)), Unquote(UrlPath(WithSlash(root)))) \o ".md")

\* C8 as claimed: for a reference that does not start with ./ the first wiki root,
\* in the configured order, that matches gives the key: prefix stripped, .md
\* appended, joined to the base directory; if none matches the reference is
\* returned unchanged in parentheses and the mapping is not looked up
C8_FirstWikiRootWins ==
    \A n \in 1..Len(link_log) :
        ~StartsWith(link_log[n].original_ref, "./") =>
            IF MatchingRoots(link_log[n].original_ref) = <<>>
            THEN /\ ~link_log[n].logged
                 /\ link_log[n].out = "(" \o link_log[n].original_ref \o ")"
            ELSE /\ link_log[n].logged
                 /\ link_log[n].resolved_ref =
                      PrefixStrippedKey(link_log[n].original_ref,
                                        MatchingRoots(link_log[n].original_ref)[1])

\* the create calls issued so far
Creates == SelectSeq(calls, LAMBDA c : c.op = "create")

\* the descriptors create_hierarchy has gone through
Created == IF pc = "build" THEN 0 ELSE IF pc = "create" THEN page_index - 1 ELSE Len(hierarchy)

\* C9: flat creation issues one create call per descriptor, in hierarchy order:
\* the Root's under the root parent (page 0), every other one under the Root's
\* page, whatever its depth; until the move phase every such page is an immediate
\* child of the Root's page
C9_FlatCreation ==
    /\ Len(Creates) = Created
    /\ \A k \in 1..Created :
          /\ Creates[k].page = PageOf(k)
          /\ Creates[k].text = title(hierarchy[k])
          /\ Creates[k].target = IF IsRoot(k) THEN 0 ELSE PageOf(1)
          /\ pc \in {"create", "update"} => notion_parent[PageOf(k)] = Creates[k].target

\* the creation is over for a hierarchy with a Leaf under a Node, whose page is a
\* child of the Root's page all the same
C9_Witness ==
    /\ pc = "update"
    /\ \E k, j \in Descriptors :
          /\ hierarchy[k].type = "LEAVE"
          /\ hierarchy[j].type = "NODE"
          /\ hierarchy[k].parent_filename = hierarchy[j].filename
          /\ notion_parent[PageOf(k)] = PageOf(1)
          /\ PageOf(j) # PageOf(1)

\* the move calls issued so far
Moves == SelectSeq(calls, LAMBDA c : c.op = "move")

\* the non-Root descriptors, last first
NonRootReversed == SelectSeq(Reverse(hierarchy), LAMBDA d : d.type # "ROOT")

\* C10: the move calls are issued in reverse hierarchy order, one for each
\* non-Root descriptor and none for the Root, each to the first-child position of
\* the page mapped to the descriptor's parent_filename; a completed run has
\* issued them all
C10_MovesInReverseOrder ==
    /\ Len(Moves) <= Len(NonRootReversed)
    /\ pc = "done" => Len(Moves) = Len(NonRootReversed)
    /\ \A k \in 1..Len(Moves) :
          /\ Moves[k].page = filename_to_notion[NonRootReversed[k].filename]
          /\ Moves[k].target = filename_to_notion[NonRootReversed[k].parent_filename]
          /\ Moves[k].text = "first-child"
          /\ Moves[k].page # root_notion_page
    /\ Moves # <<>> =>
          Head(notion_children[Moves[Len(Moves)].target]) = Moves[Len(Moves)].page

\* a completed run that moved three pages or more, a Node's among them
C10_Witness ==
    /\ pc = "done"
    /\ Len(Moves) >= 3
    /\ \E k \in 1..Len(Moves) : NonRootReversed[k].type = "NODE"

(***************************************************************************)
(* Failures                                                                *)
(***************************************************************************)
\* update_links is at a non-Root descriptor
AtPage == pc = "update" /\ page_index <= Len(hierarchy) /\ ~IsRoot(page_index)

\* the last n calls issued
LastCalls(n) == SubSeq(calls, Len(calls) - n + 1, Len(calls))

\* C11: when the source file of a non-Root descriptor cannot be read, and neither
\* the scratch write nor the import fails, the step of update_links does not
\* abort: the page gets one import call, of empty content, followed by the
\* assignment of its title, and the loop goes on to the next descriptor
C11_ReadFailureIsEmptyContent ==
    [][AtPage /\ ~ReadOk(hierarchy[page_index]) /\ import_failures' = import_failures
       => /\ pc' = "update"
          /\ page_index' = page_index + 1
          /\ calls' = calls \o <<Call("import", PageOf(page_index), 0, ""),
                                 Call("title", PageOf(page_index), 0,
                                      title(hierarchy[page_index]))>>
          /\ notion_content'[PageOf(page_index)] = ""
          /\ notion_title'[PageOf(page_index)] = title(hierarchy[page_index])]_vars

\* the page of a Node whose index.md does not exist has just been imported empty
\* and titled
C11_Witness ==
    /\ Imported
    /\ LastPage.type = "NODE"
    /\ ~ReadOk(LastPage)
    /\ LastCalls(2) = <<Call("import", PageOf(page_index - 1), 0, ""),
                        Call("title", PageOf(page_index - 1), 0, title(LastPage))>>

\* the run has stopped in an import whose retry failed as well
ImportAborted == pc = "error" /\ calls # <<>> /\ calls[Len(calls)].op = "import"

\* C12: an import that raises an I/O error is tried again exactly once, with an
\* empty payload; if the retry succeeds the title is assigned and the loop goes on
\* to the next page; if it fails too the run stops there: nothing is issued
\* afterwards, the failing page gets no title assignment and no move is ever issued
C12_ImportRetriedOnce ==
    /\ [][AtPage /\ import_failures' # import_failures /\ calls' # calls
          => /\ SubSeq(calls', 1, Len(calls) + 2) =
                  calls \o <<Call("import", PageOf(page_index), 0, Rewritten(hierarchy[page_index])),
                             Call("import", PageOf(page_index), 0, "")>>
             /\ \/ /\ calls' = Append(SubSeq(calls', 1, Len(calls) + 2),
                                      Call("title", PageOf(page_index), 0,
                                           title(hierarchy[page_index])))
                   /\ pc' = "update"
                   /\ page_index' = page_index + 1
                \/ /\ Len(calls') = Len(calls) + 2
                   /\ pc' = "error"]_vars
    /\ [][pc = "error" => FALSE]_vars
    /\ [](ImportAborted =>
            /\ Moves = <<>>
            /\ \A n \in 1..Len(calls) :
                  calls[n].page = calls[Len(calls)].page => calls[n].op \in {"create", "import"})

\* the run has stopped in the failed retry of a page that is not the last of the
\* hierarchy: the pages after it were never imported
C12_Witness ==
    /\ ImportAborted
    /\ LastCalls(2)[1].op = "import"
    /\ LastCalls(2)[1].page = LastCalls(2)[2].page
    /\ LastCalls(2)[2].text = ""
    /\ \E k \in Descriptors : PageOf(k) > calls[Len(calls)].page

\* the non-Root descriptors whose parent_filename is no key of the mapping
Orphans ==
    {k \in Descriptors : ~IsRoot(k) /\ hierarchy[k].parent_filename \notin DOMAIN filename_to_notion}

\* the mapping is complete: create_hierarchy has returned
Mapped == pc \notin {"build", "create"}

\* C13: when a non-Root descriptor's parent_filename is no key of the mapping,
\* move_pages stops with an error at the lookup for that descriptor: no move is
\* issued for it or for a descriptor the reversed walk reaches after it, and the
\* run never finishes
C13_ParentLookupMissIsFatal ==
    /\ [](Mapped /\ Orphans # {} =>
            /\ pc # "done"
            /\ \A k \in Orphans, n \in 1..Len(Moves) :
                  \A j \in 1..k : Moves[n].page # PageOf(j))
    /\ [][pc = "move" /\ page_index <= Len(hierarchy)
             /\ (Len(hierarchy) + 1 - page_index) \in Orphans
          => pc' = "error" /\ calls' = calls]_vars

\* the run has stopped at the lookup of a Node's parent, after the pages of the
\* descriptors behind the Node were moved
C13_Witness ==
    /\ pc = "error"
    /\ import_failures = 0
    /\ Orphans # {}
    /\ Moves # <<>>
    /\ \A n \in 1..Len(Moves), k \in Orphans : Moves[n].page > PageOf(k)

(***************************************************************************)
(* Two runs                                                                *)
(***************************************************************************)
\* the pages the first run created
FirstRunPages == DOMAIN previous.notion_parent

\* C14: a second run against the same root parent and the same tree creates its
\* own pages: it never maps a filename to a page of the first run and leaves the
\* parent, children, title and content of every such page as they were, and after
\* two successful runs the pages under the root parent are twice the descriptors
C14_SecondRunDuplicates ==
    run = "second" =>
        /\ \A p \in FirstRunPages :
              /\ notion_parent[p] = previous.notion_parent[p]
              /\ notion_children[p] = previous.notion_children[p]
              /\ notion_title[p] = previous.notion_title[p]
              /\ notion_content[p] = previous.notion_content[p]
              /\ \A f \in DOMAIN filename_to_notion : filename_to_notion[f] # p
        /\ Cardinality(FirstRunPages) = Len(hierarchy)
        /\ pc = "done" => Cardinality(DOMAIN notion_parent) = 2 * Len(hierarchy)

\* the second run of a hierarchy of three descriptors or more has finished
C14_Witness ==
    /\ run = "second"
    /\ pc = "done"
    /\ Len(hierarchy) >= 3
    /\ Cardinality(DOMAIN notion_parent) = 2 * Len(hierarchy)

(***************************************************************************)
(* Phases                                                                  *)
(***************************************************************************)
\* the phase a remote call belongs to
PhaseOf(c) == CASE c.op = "create" -> 1 [] c.op = "move" -> 3 [] OTHER -> 2

Imports == SelectSeq(calls, LAMBDA c : c.op = "import")

\* C15: in one run every create call comes before every import call and every
\* import call before every move call, and from the first import on the mapping
\* has an entry for the filename of every descriptor
C15_PhasesInOrder ==
    /\ \A i, j \in 1..Len(calls) : i < j => PhaseOf(calls[i]) <= PhaseOf(calls[j])
    /\ Imports # <<>> =>
          /\ \A k \in Descriptors : hierarchy[k].filename \in DOMAIN filename_to_notion
          /\ Len(Creates) = Len(hierarchy)

\* a finished run that issued calls of the three kinds, several of each
C15_Witness ==
    /\ pc = "done"
    /\ Len(Creates) >= 3
    /\ Len(Imports) >= 2
    /\ Len(Moves) >= 2

\* C16: the mapping is written once per key. A step changes it only in
\* create_hierarchy, by adding the filename of the descriptor at hand, which was no
\* key before, and leaves every key it had with the handle it had; the steps of
\* update_links, with the resolver calls they make, and of move_pages leave it as it is
C16_MappingWriteOnce ==
    [][/\ \A f \in DOMAIN filename_to_notion :
             f \in DOMAIN filename_to_notion' /\ filename_to_notion'[f] = filename_to_notion[f]
       /\ pc # "create" => filename_to_notion' = filename_to_notion
       /\ filename_to_notion' # filename_to_notion =>
             /\ hierarchy[page_index].filename \notin DOMAIN filename_to_notion
             /\ DOMAIN filename_to_notion' =
                   DOMAIN filename_to_notion \cup {hierarchy[page_index].filename}]_vars

\* a finished run whose mapping has four keys or more, with pages rewritten and
\* moved on the way
C16_Witness ==
    /\ pc = "done"
    /\ Cardinality(DOMAIN filename_to_notion) >= 4
    /\ Cardinality(DOMAIN filename_to_notion) = Len(hierarchy)
    /\ Imports # <<>>
    /\ Moves # <<>>

\* the descriptors whose parent_filename is the filename of page
ChildrenOf(page) == {k \in Descriptors : hierarchy[k].parent_filename = page.filename}

\* the page of descriptor k has been moved
Moved(k) == \E n \in 1..Len(Moves) : Moves[n].page = PageOf(k)

\* C17: when move_pages issues the move of a page P, the page of every descriptor
\* whose parent_filename is P's filename has been moved already and is a child of
\* P's page, no longer of the Root's page it was created under
C17_ChildrenMovedBeforeParent ==
    [][pc = "move" /\ calls' # calls
       => \A k \in ChildrenOf(Reversed[page_index]) :
             /\ Moved(k)
             /\ notion_parent[PageOf(k)] = filename_to_notion[Reversed[page_index].filename]]_vars

\* the move issued last is that of a Node, other than the Root's, that has
\* children, all of them under it
C17_Witness ==
    /\ pc = "move"
    /\ Moves # <<>>
    /\ \E j \in Descriptors :
          /\ hierarchy[j].type = "NODE"
          /\ PageOf(j) = Moves[Len(Moves)].page
          /\ ChildrenOf(hierarchy[j]) # {}
          /\ \A k \in ChildrenOf(hierarchy[j]) : notion_parent[PageOf(k)] = PageOf(j)

\* C18 as claimed: an I/O error in a step of update_links, be it raised by the
\* write to the scratch file or by the import, stops the run only after the import
\* was tried again against an empty file; the step does not stop before that
C18_ScratchWriteErrorTolerated ==
    [][AtPage /\ pc' = "error"
       => /\ calls' # calls
          /\ calls'[Len(calls')] = Call("import", PageOf(page_index), 0, "")]_vars

(***************************************************************************)
(* Titles and order                                                        *)
(***************************************************************************)
Titles == SelectSeq(calls, LAMBDA c : c.op = "title")

\* the non-Root descriptors, in hierarchy order
NonRoot == SelectSeq(hierarchy, LAMBDA d : d.type # "ROOT")

\* the title calls among the first i calls
TitlesBefore(i) == Len(SelectSeq(SubSeq(calls, 1, i), LAMBDA c : c.op = "title"))

\* C19: update_links goes through the non-Root descriptors in hierarchy order:
\* the n-th title call sets the title of the n-th non-Root descriptor on its page,
\* straight after the last import call for that page and before any import call for
\* a later page, so that the page is left with that title; no import and no title
\* call is issued for the Root's page
C19_TitleAfterImport ==
    /\ Len(Titles) <= Len(NonRoot)
    /\ \A n \in 1..Len(Titles) :
          /\ Titles[n].page = filename_to_notion[NonRoot[n].filename]
          /\ Titles[n].text = title(NonRoot[n])
          /\ notion_title[Titles[n].page] = Titles[n].text
    /\ \A i \in 1..Len(calls) :
          /\ calls[i].op = "title" =>
                i > 1 /\ calls[i - 1].op = "import" /\ calls[i - 1].page = calls[i].page
          /\ calls[i].op = "import" =>
                /\ TitlesBefore(i) < Len(NonRoot)
                /\ calls[i].page = filename_to_notion[NonRoot[TitlesBefore(i) + 1].filename]
                /\ i < Len(calls) => calls[i + 1].op \in {"import", "title"}
                /\ i = Len(calls) => pc = "error"
          /\ calls[i].op \in {"import", "title"} => calls[i].page # root_notion_page
    /\ pc \in {"move", "done"} => Len(Titles) = Len(NonRoot)

\* update_links has returned after titling two pages or more, one of them after a
\* second import
C19_Witness ==
    /\ pc = "move"
    /\ Len(Titles) >= 2
    /\ Len(Imports) > Len(Titles)
    /\ hierarchy[1].type = "ROOT"

\* the descriptor a page was created for
DescriptorOf(p) == CHOOSE k \in Descriptors : PageOf(k) = p

\* C20: after a successful run the children of every page created, the Root's
\* included, are in the order of their descriptors in the hierarchy
C20_ChildrenInHierarchyOrder ==
    pc = "done" =>
        \A p \in DOMAIN notion_parent :
            \A i, j \in 1..Len(notion_children[p]) :
                i < j => DescriptorOf(notion_children[p][i]) < DescriptorOf(notion_children[p][j])

\* a finished run in which the Root's page and the page of a Node have two
\* children or more each
C20_Witness ==
    /\ pc = "done"
    /\ hierarchy # <<>>
    /\ Len(notion_children[root_notion_page]) >= 2
    /\ \E k \in Descriptors :
          hierarchy[k].type = "NODE" /\ Len(notion_children[PageOf(k)]) >= 2

====
